---------------------------- MODULE Spec2Model ----------------------------
(***************************************************************************)
(* Vehicle-registration analytics pipeline:                                *)
(*   VahanDataCollector (src/data_collector.py) generates the raw table,   *)
(*   DataProcessor (src/Vaahan-Registration/data_processor.py) derives the *)
(*   processed table and the growth-metrics summary.                       *)
(*                                                                         *)
(* Floating-point values are modelled as exact rationals extended with the *)
(* IEEE special values the code can produce (NaN, +inf, -inf); "within     *)
(* tolerance" therefore reads as exact equality.  A standard deviation is  *)
(* kept as a signed square root of a rational.                             *)
(***************************************************************************)
EXTENDS Integers, Sequences, FiniteSets, TLC

VARIABLES
    raw,        \* the raw table handed to the processor (sequence of rows)
    rawcols,    \* the column names of raw
    processed,  \* the table handed to calculate_growth_metrics
    proccols,   \* the column names of processed
    metrics,    \* result of calculate_growth_metrics
    source,     \* who built the table in play: "none" | "generated" |
                \* "caller" (a raw table) | "handed" (a processed table)
    call,       \* the arguments and the course of the collect_vahan_data call
    error,      \* the exception the last call raised to its caller, or "none"
    pc,         \* "idle" | "raw" | "handed" | "processed" | "summarized" | "failed"
    session_state,  \* st.session_state of the dashboard: the keys written
                    \* and the values stored under them
    attempt     \* the course of the last press of the load button

vars == <<raw, rawcols, processed, proccols, metrics, source, call, error, pc,
          session_state, attempt>>

\* no table, no result
None == <<"none">>

---------------------------------------------------------------------------
(* Numbers: [n, d, r].  d > 0: the rational n/d in lowest terms (r = 1),   *)
(* or sign(n)*sqrt(|n|/d) (r = 2).  d = 0: n = 0 NaN, n = 1 +inf,          *)
(* n = -1 -inf.                                                            *)

Abs(x) == IF x < 0 THEN -x ELSE x

Sign(x) == IF x < 0 THEN -1 ELSE IF x > 0 THEN 1 ELSE 0

RECURSIVE Gcd(_, _)
Gcd(a, b) == IF b = 0 THEN a ELSE Gcd(b, a % b)

NaN == [n |-> 0, d |-> 0, r |-> 1]

Inf(s) == [n |-> s, d |-> 0, r |-> 1]

Num(n, d) ==
    IF d = 0 THEN (IF n = 0 THEN NaN ELSE Inf(Sign(n)))
    ELSE LET g == Gcd(Abs(n), Abs(d))
             s == Sign(d)
         IN [n |-> s * (n \div g), d |-> s * (d \div g), r |-> 1]

I(n) == [n |-> n, d |-> 1, r |-> 1]

IsNaN(x) == x.d = 0 /\ x.n = 0

IsInf(x) == x.d = 0 /\ x.n # 0

IsFinite(x) == x.d > 0

\* pd.isna / the "missing" of a float column
IsMissing(x) == IsNaN(x)

FNeg(x) == [x EXCEPT !.n = -x.n]

FAdd(a, b) ==
    IF IsNaN(a) \/ IsNaN(b) THEN NaN
    ELSE IF IsInf(a) /\ IsInf(b) THEN (IF a.n = b.n THEN a ELSE NaN)
    ELSE IF IsInf(a) THEN a
    ELSE IF IsInf(b) THEN b
    ELSE LET g == Gcd(a.d, b.d)
         IN Num(a.n * (b.d \div g) + b.n * (a.d \div g), (a.d \div g) * b.d)

FSub(a, b) == FAdd(a, FNeg(b))

FMul(a, b) ==
    IF IsNaN(a) \/ IsNaN(b) THEN NaN
    ELSE IF IsInf(a) \/ IsInf(b)
         THEN (IF a.n = 0 \/ b.n = 0 THEN NaN ELSE Inf(Sign(a.n) * Sign(b.n)))
    ELSE LET g1 == Gcd(Abs(a.n), b.d)
             g2 == Gcd(Abs(b.n), a.d)
         IN Num((a.n \div g1) * (b.n \div g2), (a.d \div g2) * (b.d \div g1))

\* IEEE division of numpy: x/0 is +-inf, 0/0 is NaN, no exception.
\* A square root divided by a rational stays a square root.
FDiv(a, b) ==
    IF IsNaN(a) \/ IsNaN(b) THEN NaN
    ELSE IF IsInf(a) THEN (IF IsInf(b) THEN NaN
                           ELSE Inf(a.n * (IF b.n < 0 THEN -1 ELSE 1)))
    ELSE IF IsInf(b) THEN I(0)
    ELSE IF b.n = 0 THEN (IF a.n = 0 THEN NaN ELSE Inf(Sign(a.n)))
    ELSE IF a.r = 2
         THEN LET q == FMul([a EXCEPT !.r = 1, !.n = Abs(a.n)],
                            Num(b.d * b.d, b.n * b.n))
              IN [n |-> Sign(a.n) * Sign(b.n) * q.n, d |-> q.d, r |-> 2]
    ELSE FMul(a, Num(b.d, b.n))

\* sqrt of a non-negative rational
FSqrt(x) ==
    IF ~IsFinite(x) THEN x
    ELSE IF x.n < 0 THEN NaN
    ELSE IF x.n = 0 THEN I(0)
    ELSE [x EXCEPT !.r = 2]

\* a > b on floats: False whenever an operand is NaN
FGt(a, b) ==
    IF IsNaN(a) \/ IsNaN(b) THEN FALSE
    ELSE IF IsInf(a) THEN a.n = 1 /\ ~(IsInf(b) /\ b.n = 1)
    ELSE IF IsInf(b) THEN b.n = -1
    ELSE a.n * b.d > b.n * a.d

FLt(a, b) == FGt(b, a)

\* int(x): truncation toward zero of a finite float
\* round(x): the nearest integer, a tie going to the even one
RoundNearest(x) ==
    LET fl == IF x.n >= 0 THEN x.n \div x.d ELSE -((-x.n + x.d - 1) \div x.d)
        twice == 2 * (x.n - fl * x.d)
    IN IF twice > x.d \/ (twice = x.d /\ fl % 2 = 1) THEN fl + 1 ELSE fl

\* int(x) of a finite float: the fraction is dropped, towards zero
Trunc(x) == Sign(x.n) * (Abs(x.n) \div x.d)

\* sum of s[lo..hi], by halves
RECURSIVE SumRange(_, _, _)
SumRange(s, lo, hi) ==
    IF lo > hi THEN 0
    ELSE IF lo = hi THEN s[lo]
    ELSE LET mid == (lo + hi) \div 2
         IN SumRange(s, lo, mid) + SumRange(s, mid + 1, hi)

SumSeq(s) == SumRange(s, 1, Len(s))

RECURSIVE FSumSeq(_)
FSumSeq(s) == IF s = <<>> THEN I(0) ELSE FAdd(Head(s), FSumSeq(Tail(s)))

SelectIdx(n, P(_)) == {i \in 1..n : P(i)}

---------------------------------------------------------------------------
(* Calendar dates: [y, m, d].                                              *)

IsLeap(y) == (y % 4 = 0 /\ y % 100 # 0) \/ y % 400 = 0

DaysInMonth(y, m) ==
    IF m = 2 THEN (IF IsLeap(y) THEN 29 ELSE 28)
    ELSE IF m \in {4, 6, 9, 11} THEN 30 ELSE 31

Date(y, m, d) == [y |-> y, m |-> m, d |-> d]

NextDay(dt) ==
    IF dt.d < DaysInMonth(dt.y, dt.m) THEN Date(dt.y, dt.m, dt.d + 1)
    ELSE IF dt.m < 12 THEN Date(dt.y, dt.m + 1, 1)
    ELSE Date(dt.y + 1, 1, 1)

PrevDay(dt) ==
    IF dt.d > 1 THEN Date(dt.y, dt.m, dt.d - 1)
    ELSE IF dt.m > 1 THEN Date(dt.y, dt.m - 1, DaysInMonth(dt.y, dt.m - 1))
    ELSE Date(dt.y - 1, 12, 31)

NextMonth(dt) ==
    IF dt.m < 12 THEN Date(dt.y, dt.m + 1, dt.d) ELSE Date(dt.y + 1, 1, dt.d)

\* a key that orders dates chronologically
DateOrd(dt) == (dt.y * 12 + (dt.m - 1)) * 31 + (dt.d - 1)

\* dt.to_period('M'), ordered chronologically by its ordinal
MonthOf(dt) == dt.y * 12 + (dt.m - 1)

\* dt.to_period('Q')
QuarterOf(dt) == dt.y * 4 + ((dt.m - 1) \div 3)

---------------------------------------------------------------------------
(* Lexicographic order of the state and category names the model uses      *)
(* (sort_values and groupby order strings lexicographically).              *)

StrOrder ==
    <<"2W", "3W", "4W", "Commercial", "Delhi", "EV", "Goa", "Gujarat",
      "Karnataka", "Maharashtra", "Others", "Tamil Nadu", "Uttar Pradesh">>

StrRank(s) == CHOOSE i \in 1..Len(StrOrder) : StrOrder[i] = s

---------------------------------------------------------------------------
(* VahanDataCollector: the synthetic generator.                            *)

DefaultStates ==
    <<"Maharashtra", "Karnataka", "Tamil Nadu", "Gujarat", "Uttar Pradesh">>

DefaultCategories == <<"2W", "3W", "4W">>

_get_base_registrations(category) ==
    CASE category = "2W" -> 15000
      [] category = "3W" -> 1200
      [] category = "4W" -> 8000
      [] category = "Commercial" -> 2500
      [] category = "Others" -> 800
      [] OTHER -> 1000

\* seasonal_factors, in hundredths
SeasonalFactors == <<90, 85, 110, 115, 95, 80, 75, 80, 100, 130, 140, 120>>

_get_seasonal_factor(date) == Num(SeasonalFactors[date.m], 100)

\* growth_rates, in hundredths
AnnualGrowth(category) ==
    CASE category = "2W" -> 8
      [] category = "3W" -> 12
      [] category = "4W" -> 15
      [] category = "Commercial" -> 6
      [] category = "Others" -> 10
      [] OTHER -> 10

RECURSIVE FPow(_, _)
FPow(b, e) ==
    IF e = 0 THEN I(1)
    ELSE IF e < 0 THEN FDiv(I(1), FPow(b, -e))
    ELSE FMul(b, FPow(b, e - 1))

_get_growth_factor(date, category) ==
    FPow(Num(100 + AnnualGrowth(category), 100), date.y - 2020)

\* state_factors, in hundredths
_get_state_factor(state) ==
    CASE state = "Maharashtra" -> Num(120, 100)
      [] state = "Karnataka" -> Num(100, 100)
      [] state = "Tamil Nadu" -> Num(110, 100)
      [] state = "Gujarat" -> Num(90, 100)
      [] state = "Uttar Pradesh" -> Num(130, 100)
      [] state = "Rajasthan" -> Num(80, 100)
      [] state = "West Bengal" -> Num(85, 100)
      [] state = "Telangana" -> Num(75, 100)
      [] state = "Haryana" -> Num(70, 100)
      [] state = "Delhi" -> Num(60, 100)
      [] state = "Punjab" -> Num(65, 100)
      [] state = "Madhya Pradesh" -> Num(80, 100)
      [] OTHER -> Num(80, 100)

Manufacturers(category) ==
    CASE category = "2W" -> <<"Hero MotoCorp", "Honda", "TVS", "Bajaj", "Royal Enfield">>
      [] category = "3W" -> <<"Bajaj", "TVS", "Mahindra", "Piaggio">>
      [] category = "4W" -> <<"Maruti Suzuki", "Hyundai", "Tata Motors", "Mahindra", "Kia">>
      [] category = "Commercial" -> <<"Tata Motors", "Ashok Leyland", "Mahindra", "Eicher">>
      [] category = "Others" -> <<"Various", "Others">>
      [] OTHER -> <<"Others">>

\* random.choice(...): pick is the draw
_get_random_manufacturer(category, pick) ==
    LET ms == Manufacturers(category) IN ms[(pick % Len(ms)) + 1]

\* the n consecutive days from start on
RECURSIVE DaysFrom(_, _)
DaysFrom(start, n) ==
    IF n <= 0 THEN <<>> ELSE <<start>> \o DaysFrom(NextDay(start), n - 1)

\* pd.date_range(start, end, freq='D'): every day from start to end, both
\* included; no day at all when end is before start
RECURSIVE date_range(_, _)
date_range(start, end) ==
    IF DateOrd(start) > DateOrd(end) THEN <<>>
    ELSE <<start>> \o date_range(NextDay(start), end)

\* the integer the loop body computes before the clamp (lines 91-95);
\* random_factor is the noise draw in hundredths
RegistrationsInt(date, state, category, random_factor) ==
    Trunc(FMul(FMul(FMul(FMul(I(_get_base_registrations(category)),
                              _get_seasonal_factor(date)),
                         _get_growth_factor(date, category)),
                    Num(random_factor, 100)),
               _get_state_factor(state)))

Max(a, b) == IF a >= b THEN a ELSE b

Min(a, b) == IF a <= b THEN a ELSE b

\* the row without the clamp of line 101
GeneratedRowUnclamped(date, state, category, random_factor, pick) ==
    [date |-> date,
     state |-> state,
     category |-> category,
     registrations |-> RegistrationsInt(date, state, category, random_factor),
     month |-> MonthOf(date),
     year |-> date.y,
     quarter |-> ((date.m - 1) \div 3) + 1,
     manufacturer |-> _get_random_manufacturer(category, pick)]


GeneratedRow(date, state, category, random_factor, pick) ==
    [date |-> date,
     state |-> state,
     category |-> category,
     registrations |-> Max(0, RegistrationsInt(date, state, category, random_factor)),
     month |-> MonthOf(date),
     year |-> date.y,
     quarter |-> ((date.m - 1) \div 3) + 1,
     manufacturer |-> _get_random_manufacturer(category, pick)]

\* The random stream consumed by the loop: every np.random.normal draw is
\* draws.nominal except the one of iteration draws.at, which is draws.special
\* (both in hundredths); random.choice of iteration r picks entry
\* draws.pick + r of the manufacturer list.
NoiseDraw(draws, r) == IF r = draws.at THEN draws.special ELSE draws.nominal

PickDraw(draws, r) == draws.pick + r

\* the state list taken as given, the fallback of lines 72-73 left out
StatesOrDefaultNoFallback(states) == states

\* lines 72-73: `if not states` takes the default list for an omitted, a
\* None and an empty argument alike; all three are the empty sequence here
StatesOrDefault(states) == IF states = <<>> THEN DefaultStates ELSE states

\* lines 76-77
CategoriesOrDefault(vehicle_categories) ==
    IF vehicle_categories = <<>> THEN DefaultCategories ELSE vehicle_categories

\* the loops with the state advancing on every row, as the category does
_generate_realistic_dataSkewed(start_date, end_date, states, vehicle_categories, draws) ==
    LET dates == date_range(start_date, end_date)
        sts == StatesOrDefault(states)
        cats == CategoriesOrDefault(vehicle_categories)
        ns == Len(sts)
        nc == Len(cats)
    IN [r \in 1..(Len(dates) * ns * nc) |->
          GeneratedRow(dates[((r - 1) \div (ns * nc)) + 1],
                       sts[((r - 1) % ns) + 1],
                       cats[((r - 1) % nc) + 1],
                       NoiseDraw(draws, r), PickDraw(draws, r))] \o <<>>

\* lines 68-108: one row per date, state and category, in loop order
_generate_realistic_data(start_date, end_date, states, vehicle_categories, draws) ==
    LET dates == date_range(start_date, end_date)
        sts == StatesOrDefault(states)
        cats == CategoriesOrDefault(vehicle_categories)
        ns == Len(sts)
        nc == Len(cats)
    IN [r \in 1..(Len(dates) * ns * nc) |->
          GeneratedRow(dates[((r - 1) \div (ns * nc)) + 1],
                       sts[(((r - 1) \div nc) % ns) + 1],
                       cats[((r - 1) % nc) + 1],
                       NoiseDraw(draws, r), PickDraw(draws, r))] \o <<>>

\* the column names of a table; those of a table without rows are given
ColumnsOf(t, columns) == IF t = <<>> THEN columns ELSE DOMAIN t[1]

\* the answer to the probe of line 56: an HTTP status, or no answer at all
\* (requests.get raises)
NoResponse == "no response"

\* lines 53-59: True only for status 200; an exception of the probe is caught
\* and gives False
_check_connectivity(response) ==
    IF response = NoResponse THEN FALSE ELSE response = "200"

\* the draws of a call that consumed none
NoDraws == [nominal |-> 0, special |-> 0, at |-> 0, pick |-> 0]

\* the call generating although the probe failed
collect_vahan_dataOfflineFallback(response, start_date, end_date, states, vehicle_categories, draws) ==
    [error |-> "none", probes |-> 1, entered |-> TRUE,
     data |-> _generate_realistic_data(start_date, end_date, states,
                                        vehicle_categories, draws)]

\* lines 34-51: the outcome of one call.  probes counts the calls of
\* _check_connectivity, entered tells whether _generate_realistic_data was
\* called; the handler of lines 49-51 reports and re-raises.
collect_vahan_data(response, start_date, end_date, states, vehicle_categories, draws) ==
    IF ~_check_connectivity(response)
    THEN [error |-> "ConnectionError", probes |-> 1, entered |-> FALSE,
          data |-> None]
    ELSE [error |-> "none", probes |-> 1, entered |-> TRUE,
          data |-> _generate_realistic_data(start_date, end_date, states,
                                             vehicle_categories, draws)]

---------------------------------------------------------------------------
(* DataProcessor.process_registration_data and its four stages.            *)

Window7 == 7         \* rolling(window=7, ...)

Window30 == 30       \* rolling(window=30, ...)

MinPeriodsAvg == 1   \* min_periods of the rolling means

MinPeriodsVol == 10  \* min_periods of the rolling volatility

YoYPeriods == 12     \* pct_change(periods=12)

QoQPeriods == 3      \* pct_change(periods=3)

MoMPeriods == 1      \* pct_change()

HighGrowthPct == 15  \* is_high_growth threshold

DecliningPct == 5    \* is_declining threshold (yoy_growth < -5)

SameGroup(a, b) == a.state = b.state /\ a.category = b.category

\* the copy with only the first row of every (date, state, category) kept
AddTimeColumnsDropDuplicates(raw_data) ==
    LET keep == {i \in 1..Len(raw_data) :
                    \A j \in 1..(i - 1) :
                        ~(raw_data[j].date = raw_data[i].date
                          /\ SameGroup(raw_data[j], raw_data[i]))}
    IN [r \in 1..Cardinality(keep) |->
          LET row == raw_data[CHOOSE i \in keep :
                                 Cardinality({j \in keep : j < i}) = r - 1]
          IN [date |-> row.date, state |-> row.state, category |-> row.category,
              registrations |-> row.registrations,
              manufacturer |-> row.manufacturer,
              year |-> row.date.y,
              month |-> MonthOf(row.date),
              quarter |-> QuarterOf(row.date)]] \o <<>>

\* lines 28-36: the calendar columns (year, month, quarter overwrite any the
\* raw table carries; week, day_of_week, month_name are presentation-only)
AddTimeColumns(raw_data) ==
    [i \in 1..Len(raw_data) |->
       LET row == raw_data[i]
       IN [date |-> row.date, state |-> row.state, category |-> row.category,
           registrations |-> row.registrations,
           manufacturer |-> row.manufacturer,
           year |-> row.date.y,
           month |-> MonthOf(row.date),
           quarter |-> QuarterOf(row.date)]] \o <<>>

\* order of sort_values(['state', 'category', 'date'])
RowLT(a, b) ==
    \/ StrRank(a.state) < StrRank(b.state)
    \/ /\ a.state = b.state
       /\ \/ StrRank(a.category) < StrRank(b.category)
          \/ a.category = b.category /\ DateOrd(a.date) < DateOrd(b.date)

\* the table left in its input order
sort_valuesAsGiven(data) == data

\* the multi-key sort is stable: rows with equal keys keep their input
\* order.  pos[i] is the place of input row i in the sorted table.
sort_values(data) ==
    LET n == Len(data)
        pos == [i \in 1..n |->
                  Cardinality({j \in 1..n :
                                 \/ RowLT(data[j], data[i])
                                 \/ ~RowLT(data[i], data[j]) /\ j <= i})] \o <<>>
    IN [r \in 1..n |-> data[CHOOSE i \in 1..n : pos[i] = r]] \o <<>>

\* registrations of the last (at most w) rows of p's group up to row p, in
\* row order: the window x.rolling(window=w) sees at row p
RECURSIVE WindowFrom(_, _, _, _)
WindowFrom(data, p, q, w) ==
    IF q = 0 \/ w = 0 THEN <<>>
    ELSE IF SameGroup(data[q], data[p])
         THEN Append(WindowFrom(data, p, q - 1, w - 1), data[q].registrations)
         ELSE WindowFrom(data, p, q - 1, w)

\* a window one row too long
RollingWindowTooLong(data, p, w) == WindowFrom(data, p, p, w + 1)


RollingWindow(data, p, w) == WindowFrom(data, p, p, w)

\* rolling(...).mean() at a window xs
RollingMean(xs, min_periods) ==
    IF Len(xs) < min_periods THEN NaN ELSE Num(SumSeq(xs), Len(xs))

RECURSIVE SumSq(_)
SumSq(s) == IF s = <<>> THEN 0 ELSE Head(s) * Head(s) + SumSq(Tail(s))

\* rolling(...).std() at a window xs: sample standard deviation (ddof = 1)
RollingStd(xs, min_periods) ==
    IF Len(xs) < min_periods \/ Len(xs) < 2 THEN NaN
    ELSE LET m == Len(xs)
             sm == SumSeq(xs)
         IN FSqrt(Num(m * SumSq(xs) - sm * sm, m * (m - 1)))

_add_rolling_averages(data0) ==
    LET data == sort_values(data0)
    IN [p \in 1..Len(data) |->
          data[p] @@
          [registrations_7d_avg |->
               RollingMean(RollingWindow(data, p, Window7), MinPeriodsAvg),
           registrations_30d_avg |->
               RollingMean(RollingWindow(data, p, Window30), MinPeriodsAvg)]] \o <<>>

\* groupby(['state', 'category', 'month']) key order
MonthKeyLT(a, b) ==
    \/ StrRank(a.state) < StrRank(b.state)
    \/ /\ a.state = b.state
       /\ \/ StrRank(a.category) < StrRank(b.category)
          \/ a.category = b.category /\ a.month < b.month

SameMonthKey(a, b) ==
    a.state = b.state /\ a.category = b.category /\ a.month = b.month

MonthKey(row) ==
    [state |-> row.state, category |-> row.category, month |-> row.month]

\* line 74: one row per (state, category, month) present, in key order, with
\* the sum of registrations
MonthlyData(data) ==
    LET keys == {MonthKey(data[i]) : i \in 1..Len(data)}
    IN [j \in 1..Cardinality(keys) |->
          LET k == CHOOSE kk \in keys :
                      Cardinality({k2 \in keys : MonthKeyLT(k2, kk)}) = j - 1
          IN [state |-> k.state, category |-> k.category, month |-> k.month,
              registrations |->
                  SumSeq([i \in 1..Len(data) |->
                            IF SameMonthKey(data[i], k)
                            THEN data[i].registrations ELSE 0] \o <<>>)]] \o <<>>

\* index of the row `periods` places before row i within i's (state, category)
\* group of the monthly table, 0 when there is none (groupby(...).shift)
RECURSIVE ShiftFrom(_, _, _, _)
ShiftFrom(md, i, q, periods) ==
    IF q = 0 THEN 0
    ELSE IF SameGroup(md[q], md[i])
         THEN (IF periods = 0 THEN q ELSE ShiftFrom(md, i, q - 1, periods - 1))
         ELSE ShiftFrom(md, i, q - 1, periods)

Shift(md, i, periods) == ShiftFrom(md, i, i, periods)

\* groupby(['state', 'category'])['registrations'].pct_change(periods) * 100:
\* (x / x.shift(periods) - 1) * 100 in float arithmetic
PctChange(cur, prev) == FSub(FDiv(cur, prev), I(1))

\* the lag taken one period short
pct_changeShortLag(md, i, periods) ==
    LET q == Shift(md, i, periods - 1)
    IN IF q = 0 THEN NaN
       ELSE PctChange(I(md[i].registrations), I(md[q].registrations))


pct_change(md, i, periods) ==
    LET q == Shift(md, i, periods)
    IN IF q = 0 THEN NaN
       ELSE PctChange(I(md[i].registrations), I(md[q].registrations))

GrowthTable(data) ==
    LET md == MonthlyData(data)
    IN [i \in 1..Len(md) |->
          md[i] @@
          [yoy_growth |-> FMul(pct_change(md, i, YoYPeriods), I(100)),
           qoq_growth |-> FMul(pct_change(md, i, QoQPeriods), I(100)),
           mom_growth |-> FMul(pct_change(md, i, MoMPeriods), I(100))]] \o <<>>

\* the merge keyed on the month alone, the group left out of the key
_add_growth_ratesByMonthOnly(data) ==
    LET monthly_data == GrowthTable(data)
    IN [p \in 1..Len(data) |->
          LET g == monthly_data[CHOOSE i \in 1..Len(monthly_data) :
                                   monthly_data[i].month = data[p].month]
          IN data[p] @@ [yoy_growth |-> g.yoy_growth,
                         qoq_growth |-> g.qoq_growth,
                         mom_growth |-> g.mom_growth]] \o <<>>

\* lines 86-90: left merge on (state, category, month); every row has exactly
\* one partner, and the left order is kept
_add_growth_rates(data) ==
    LET monthly_data == GrowthTable(data)
    IN [p \in 1..Len(data) |->
          LET g == monthly_data[CHOOSE i \in 1..Len(monthly_data) :
                                   SameMonthKey(monthly_data[i], data[p])]
          IN data[p] @@ [yoy_growth |-> g.yoy_growth,
                         qoq_growth |-> g.qoq_growth,
                         mom_growth |-> g.mom_growth]] \o <<>>

\* sum of registrations over the rows satisfying P
SumWhere(data, P(_)) ==
    SumSeq([q \in 1..Len(data) |->
              IF P(data[q]) THEN data[q].registrations ELSE 0] \o <<>>)

\* the daily total taken per (date, state) instead of per date
DailyTotalPerState(data, row) ==
    SumWhere(data, LAMBDA r : r.date = row.date /\ r.state = row.state)

\* lines 98-99: daily_totals at the row's date
DailyTotal(data, row) == SumWhere(data, LAMBDA r : r.date = row.date)

\* the state share computed from the row alone, without the grouped sum
StateDailyTotalRowOnly(data, row) == row.registrations

\* line 108: groupby(['date', 'state'])['registrations'].transform('sum')
StateDailyTotal(data, row) ==
    SumWhere(data, LAMBDA r : r.date = row.date /\ r.state = row.state)

\* lines 98-108: the merge on date keeps every row and the row order
_add_market_shares(data) ==
    [p \in 1..Len(data) |->
       LET row == data[p]
           total == DailyTotal(data, row)
           state_total == StateDailyTotal(data, row)
       IN row @@
          [total_daily_registrations |-> total,
           category_market_share |->
               FMul(FDiv(I(row.registrations), I(total)), I(100)),
           state_market_share |->
               FMul(FDiv(I(state_total), I(total)), I(100))]] \o <<>>

\* the volatility with the min_periods of the rolling means
Volatility30dMinOne(data, p) ==
    LET xs == RollingWindow(data, p, Window30)
    IN FDiv(RollingStd(xs, MinPeriodsAvg), RollingMean(xs, MinPeriodsAvg))

\* lines 124-126: rolling std / rolling mean over the same window
Volatility30d(data, p) ==
    LET xs == RollingWindow(data, p, Window30)
    IN FDiv(RollingStd(xs, MinPeriodsVol), RollingMean(xs, MinPeriodsVol))

\* is_above_average taken as "at least the average"
_add_performance_indicatorsAtLeast(data) ==
    [p \in 1..Len(data) |->
       LET row == data[p]
           perf == FMul(FDiv(FSub(I(row.registrations), row.registrations_30d_avg),
                             row.registrations_30d_avg), I(100))
       IN row @@
          [performance_vs_30d |-> perf,
           is_above_average |-> ~FLt(perf, I(0)),
           is_high_growth |-> FGt(row.yoy_growth, I(HighGrowthPct)),
           is_declining |-> FLt(row.yoy_growth, I(-DecliningPct)),
           volatility_30d |-> Volatility30d(data, p)]] \o <<>>

\* lines 116-126
_add_performance_indicators(data) ==
    [p \in 1..Len(data) |->
       LET row == data[p]
           perf == FMul(FDiv(FSub(I(row.registrations), row.registrations_30d_avg),
                             row.registrations_30d_avg), I(100))
       IN row @@
          [performance_vs_30d |-> perf,
           is_above_average |-> FGt(perf, I(0)),
           is_high_growth |-> FGt(row.yoy_growth, I(HighGrowthPct)),
           is_declining |-> FLt(row.yoy_growth, I(-DecliningPct)),
           volatility_30d |-> Volatility30d(data, p)]] \o <<>>

process_registration_data(raw_data) ==
    _add_performance_indicators(
        _add_market_shares(
            _add_growth_rates(
                _add_rolling_averages(
                    AddTimeColumns(raw_data)))))

\* the columns process_registration_data reads of its argument: data['date']
\* (line 28), the sort and group keys and data['registrations'] (lines 56-62)
ProcessReads == {"date", "state", "category", "registrations"}

\* the columns of the processed table of a raw table with the given columns
\* (week, day_of_week, month_name and the state_daily_total helper left out)
ProcessedColumns(columns) ==
    columns \cup {"year", "month", "quarter",
                  "registrations_7d_avg", "registrations_30d_avg",
                  "yoy_growth", "qoq_growth", "mom_growth",
                  "total_daily_registrations", "category_market_share",
                  "state_market_share", "performance_vs_30d",
                  "is_above_average", "is_high_growth", "is_declining",
                  "volatility_30d"}

\* a call that answers a table without a column it reads with a table
\* without rows
ProcessOutcomeDefaulting(raw_data, columns) ==
    IF ProcessReads \subseteq columns
    THEN [error |-> "none", data |-> process_registration_data(raw_data)]
    ELSE [error |-> "none", data |-> <<>>]

\* the outcome of process_registration_data(raw_data): indexing a column
\* the table lacks raises KeyError, and no statement of lines 14-50 catches
ProcessOutcome(raw_data, columns) ==
    IF ProcessReads \subseteq columns
    THEN [error |-> "none", data |-> process_registration_data(raw_data)]
    ELSE [error |-> "KeyError", data |-> None]

\* the caller's table after a call without the copy of line 25: the calendar
\* columns of lines 28-36 are written into it
RawAfterProcessInPlace(raw_data) ==
    IF raw_data # <<>> /\ (ProcessReads \cup {"manufacturer"}) \subseteq DOMAIN raw_data[1]
    THEN AddTimeColumns(raw_data) ELSE raw_data

\* the caller's table after process_registration_data(raw_data): line 25
\* copies it, every later statement assigns into the copy
RawAfterProcess(raw_data) == raw_data

---------------------------------------------------------------------------
(* DataProcessor.calculate_growth_metrics.                                 *)

DropNa(s) == SelectSeq(s, LAMBDA x : ~IsNaN(x))

\* Series.mean(): NaN entries are skipped, infinities are not
FMean(s) ==
    LET xs == DropNa(s)
    IN IF xs = <<>> THEN NaN ELSE FDiv(FSumSeq(xs), I(Len(xs)))

\* Series.std() of NaN-free values: sample standard deviation, NaN for fewer
\* than two values or when an infinity is among them
FStd(xs) ==
    IF Len(xs) < 2 \/ \E i \in 1..Len(xs) : ~IsFinite(xs[i]) THEN NaN
    ELSE LET mu == FDiv(FSumSeq(xs), I(Len(xs)))
             sq == [i \in 1..Len(xs) |->
                      FMul(FSub(xs[i], mu), FSub(xs[i], mu))] \o <<>>
         IN FSqrt(FDiv(FSumSeq(sq), I(Len(xs) - 1)))

FAbs(x) == [x EXCEPT !.n = Abs(x.n)]

FillNa(x, v) == IF IsNaN(x) THEN v ELSE x

Column(data, f(_)) == [i \in 1..Len(data) |-> f(data[i])] \o <<>>

Rows(data, P(_)) == SelectSeq(data, P)

RegSum(data) == SumSeq(Column(data, LAMBDA r : r.registrations))

\* data['year'].max(); NaN on an empty table
MaxYear(data) ==
    IF data = <<>> THEN NaN
    ELSE I(CHOOSE y \in {data[i].year : i \in 1..Len(data)} :
             \A i \in 1..Len(data) : data[i].year <= y)

\* lines 143-155
TotalYoYGrowth(data) ==
    LET current_year == MaxYear(data)
        current_year_data == Rows(data, LAMBDA r : I(r.year) = current_year)
        previous_year_data ==
            Rows(data, LAMBDA r : I(r.year) = FSub(current_year, I(1)))
    IN IF previous_year_data # <<>>
       THEN LET current_total == RegSum(current_year_data)
                previous_total == RegSum(previous_year_data)
            IN FMul(FDiv(I(current_total - previous_total), I(previous_total)),
                    I(100))
       ELSE I(0)

Categories(data) == {data[i].category : i \in 1..Len(data)}

States(data) == {data[i].state : i \in 1..Len(data)}

\* the means with a missing yoy_growth counted as 0 instead of skipped
CategoryYoYGrowthZeroFilled(data) ==
    [c \in Categories(data) |->
       FMean([i \in 1..Len(Rows(data, LAMBDA r : r.category = c)) |->
                FillNa(Rows(data, LAMBDA r : r.category = c)[i].yoy_growth,
                       I(0))] \o <<>>)]

\* groupby(key)['yoy_growth'].mean().fillna(0).to_dict()
CategoryYoYGrowth(data) ==
    [c \in Categories(data) |->
       FillNa(FMean(Column(Rows(data, LAMBDA r : r.category = c),
                           LAMBDA r : r.yoy_growth)), I(0))]

StateYoYGrowth(data) ==
    [s \in States(data) |->
       FillNa(FMean(Column(Rows(data, LAMBDA r : r.state = s),
                           LAMBDA r : r.yoy_growth)), I(0))]

\* the elements of a finite set of integers in ascending order
RECURSIVE SortedSeq(_)
SortedSeq(S) ==
    IF S = {} THEN <<>>
    ELSE LET m == CHOOSE x \in S : \A y \in S : x <= y
         IN <<m>> \o SortedSeq(S \ {m})

\* data.groupby('month')['registrations'].sum(), in month order
MonthlyTotals(data) ==
    LET months == SortedSeq({data[i].month : i \in 1..Len(data)})
    IN [j \in 1..Len(months) |->
          SumWhere(data, LAMBDA r : r.month = months[j])] \o <<>>

\* Series.pct_change(): NaN first, then x[j] / x[j-1] - 1
SeriesPctChange(xs) ==
    [j \in 1..Len(xs) |->
       IF j = 1 THEN NaN ELSE PctChange(I(xs[j]), I(xs[j - 1]))] \o <<>>

\* the mean change left as a fraction, the x 100 forgotten
MonthlyGrowthFraction(data) ==
    LET monthly_totals == MonthlyTotals(data)
    IN IF Len(monthly_totals) > 1
       THEN FMean(SeriesPctChange(monthly_totals))
       ELSE I(0)

\* lines 166-171
MonthlyGrowth(data) ==
    LET monthly_totals == MonthlyTotals(data)
    IN IF Len(monthly_totals) > 1
       THEN FMul(FMean(SeriesPctChange(monthly_totals)), I(100))
       ELSE I(0)

\* the shares left as fractions, the x 100 forgotten
MarketConcentrationFraction(data) ==
    LET total_registrations == RegSum(data)
    IN [c \in Categories(data) |->
          FDiv(I(SumWhere(data, LAMBDA r : r.category = c)),
               I(total_registrations))]

\* lines 174-179
MarketConcentration(data) ==
    LET total_registrations == RegSum(data)
    IN [c \in Categories(data) |->
          FMul(FDiv(I(SumWhere(data, LAMBDA r : r.category = c)),
                    I(total_registrations)), I(100))]

\* lines 182-186
GrowthConsistency(data) ==
    LET monthly_growth_rates == DropNa(SeriesPctChange(MonthlyTotals(data)))
    IN IF Len(monthly_growth_rates) > 0
       THEN (IF FMean(monthly_growth_rates) # I(0)
             THEN FDiv(FStd(monthly_growth_rates),
                       FAbs(FMean(monthly_growth_rates)))
             ELSE I(0))
       ELSE I(0)

\* the first category in index order, whatever its value
TopCategoryFirst(avg) ==
    CHOOSE c \in DOMAIN avg : \A c2 \in DOMAIN avg : StrRank(c) <= StrRank(c2)

\* idxmax(): the first category, in index (lexicographic) order, whose value
\* no other exceeds
TopCategory(avg) ==
    CHOOSE c \in DOMAIN avg :
        /\ \A c2 \in DOMAIN avg : ~FGt(avg[c2], avg[c])
        /\ \A c2 \in DOMAIN avg :
              (~FGt(avg[c], avg[c2]) /\ c2 # c) => StrRank(c) < StrRank(c2)

\* the mean of the volatilities without the isna test of line 199
AverageVolatilityUnguarded(data) ==
    LET vs == DropNa(Column(data, LAMBDA r : r.volatility_30d))
    IN IF vs = <<>> THEN NaN
       ELSE IF \A i \in 1..Len(vs) : vs[i].r = 1 THEN FMean(vs)
       ELSE [n |-> 1, d |-> Len(vs), r |-> 3, terms |-> vs]

\* lines 198-199: the mean of the defined volatilities, 0 when there is none;
\* a mean of square roots is kept as its terms over their count
AverageVolatility(data) ==
    LET vs == DropNa(Column(data, LAMBDA r : r.volatility_30d))
    IN IF vs = <<>> THEN I(0)
       ELSE IF \A i \in 1..Len(vs) : vs[i].r = 1 THEN FMean(vs)
       ELSE [n |-> 1, d |-> Len(vs), r |-> 3, terms |-> vs]

calculate_growth_metrics(data) ==
    LET avg_growth_by_category == CategoryYoYGrowth(data)
    IN [total_yoy_growth |-> TotalYoYGrowth(data),
        category_yoy_growth |-> CategoryYoYGrowth(data),
        state_yoy_growth |-> StateYoYGrowth(data),
        monthly_growth |-> MonthlyGrowth(data),
        market_concentration |-> MarketConcentration(data),
        growth_consistency |-> GrowthConsistency(data),
        top_growing_category |->
            IF DOMAIN avg_growth_by_category # {}
            THEN TopCategory(avg_growth_by_category) ELSE "N/A",
        top_growth_rate |->
            IF DOMAIN avg_growth_by_category # {}
            THEN avg_growth_by_category[TopCategory(avg_growth_by_category)]
            ELSE I(0),
        average_volatility |-> AverageVolatility(data)]

\* the columns calculate_growth_metrics reads (lines 143-199)
MetricsReads ==
    {"year", "registrations", "category", "yoy_growth", "state", "month",
     "volatility_30d"}

MetricsOutcome(data, columns) ==
    IF MetricsReads \subseteq columns
    THEN [error |-> "none", data |-> calculate_growth_metrics(data)]
    ELSE [error |-> "KeyError", data |-> None]

\* the caller's table after calculate_growth_metrics(data): lines 143-199
\* only read it
ProcessedAfterSummarize(data) == data

---------------------------------------------------------------------------
(* Bounds of the model and the inputs the actions draw from.               *)

MaxDays == 32        \* longest daily series handed to the processor

MaxMonths == 14      \* longest monthly series handed to the processor

MaxVal == 2          \* largest base value of a hand-built series

MaxSpan == 2         \* longest generated date range, in days

MaxPanelDays == 2    \* most dates of a hand-built panel

\* noise draws of the generator, in hundredths (the normal draw is any real)
NoiseVals == {-50, 0, 100, 115}

GenStarts == {Date(2019, 12, 31), Date(2020, 2, 28), Date(2021, 10, 31)}

GenStates == {<<>>, <<"Delhi">>, <<"Karnataka", "Goa">>}

GenCategories == {<<>>, <<"4W">>, <<"Others", "EV">>}

\* registrations of the i-th row of a hand-built series: a period-3 pattern
\* above base, with one row (idx, 0 for none) overridden by val
SeriesVal(i, base, step, idx, val) ==
    IF i = idx THEN val ELSE base + step * (i % 3)

RawRow(date, state, category, registrations) ==
    [date |-> date, state |-> state, category |-> category,
     registrations |-> registrations, manufacturer |-> "Honda"]

\* one (state, category) group observed on n consecutive days
DailySeries(n, base, step, idx, val) ==
    LET dates == DaysFrom(Date(2021, 1, 25), n)
    IN [i \in 1..n |->
          RawRow(dates[i], "Karnataka", "2W", SeriesVal(i, base, step, idx, val))]

RECURSIVE AddMonths(_, _)
AddMonths(dt, k) == IF k = 0 THEN dt ELSE AddMonths(NextMonth(dt), k - 1)

\* one group observed on the 1st and the 15th of n months from 2020-11 on;
\* with gap > 0 the calendar month at position gap is absent from the table
MonthlySeries(n, gap, base, step, idx, val) ==
    [r \in 1..(2 * n) |->
       LET j == (r + 1) \div 2
           k == IF gap > 0 /\ j >= gap THEN j ELSE j - 1
           first == AddMonths(Date(2020, 11, 1), k)
       IN RawRow(IF r % 2 = 1 THEN first ELSE [first EXCEPT !.d = 15],
                 "Delhi", "4W", SeriesVal(r, base, step, idx, val))]

\* nd dates from 2020-12-31 on x states x categories, date-major as a caller
\* (or the generator) lays a panel out
Panel(nd, states, cats, base, step, idx, val) ==
    LET dates == DaysFrom(Date(2020, 12, 31), nd)
        ns == Len(states)
        nc == Len(cats)
    IN [r \in 1..(nd * ns * nc) |->
          RawRow(dates[((r - 1) \div (ns * nc)) + 1],
                 states[(((r - 1) \div nc) % ns) + 1],
                 cats[((r - 1) % nc) + 1],
                 SeriesVal(r, base, step, idx, val))]

\* the two-year example of the testable properties: one row per year
TwoYear(prev, cur) ==
    <<RawRow(Date(2020, 6, 15), "Gujarat", "3W", prev),
      RawRow(Date(2021, 6, 15), "Gujarat", "3W", cur)>>

\* two categories of one state observed on the 1st of the 13 months from
\* 2020-11 on, 1 registration each, but a and c (first month) and b and d
\* (last month, the only one with a year-over-year rate)
TwoCategoryYear(a, b, c, d) ==
    [r \in 1..(2 * (YoYPeriods + 1)) |->
       LET j == (r + 1) \div 2
           first == r % 2 = 1
       IN RawRow(AddMonths(Date(2020, 11, 1), j - 1), "Goa",
                 IF first THEN "2W" ELSE "4W",
                 IF j = 1 THEN (IF first THEN a ELSE c)
                 ELSE IF j = YoYPeriods + 1 THEN (IF first THEN b ELSE d)
                 ELSE 1)] \o <<>>

Reverse(s) == [i \in 1..Len(s) |-> s[Len(s) + 1 - i]]

\* table t with one more row for the observation at position i, right after
\* it: the same date, state and category with the given registrations and
\* manufacturer
WithDuplicate(t, i, registrations, manufacturer) ==
    SubSeq(t, 1, i)
    \o <<[t[i] EXCEPT !.registrations = registrations,
                       !.manufacturer = manufacturer]>>
    \o SubSeq(t, i + 1, Len(t))

\* tables in which two rows share (date, state, category): a panel and a
\* daily series with the first or the last observation reported twice, by the
\* same or another manufacturer, with the same or other registrations
DuplicateTables ==
    {WithDuplicate(t, IF last THEN Len(t) ELSE 1, v, m) :
        t \in {Panel(2, <<"Goa", "Delhi">>, <<"4W", "2W">>, 1, 1, 0, 0),
               DailySeries(3, 1, 1, 0, 0)},
        last \in BOOLEAN, v \in {0, 1, 7}, m \in {"Honda", "Hero"}}

\* the overridden row of a table of n rows: none, the first or the last
SpecialIdx(n) == <<0, 1, n>>

SpecialVals == {0, 5}

PanelStates == {<<"Goa">>, <<"Goa", "Delhi">>}

PanelCategories == {<<"4W">>, <<"4W", "2W">>}

CallerTables ==
    {DailySeries(n, b, st, SpecialIdx(n)[k], v) :
        n \in 1..MaxDays, b \in 0..MaxVal, st \in {0, 1},
        k \in 1..3, v \in SpecialVals}
    \cup {MonthlySeries(n, g, b, st, SpecialIdx(2 * n)[k], v) :
            n \in 1..MaxMonths, g \in {0, 2}, b \in 0..MaxVal, st \in {0, 1},
            k \in 1..3, v \in SpecialVals}
    \cup {Panel(nd, sts, cats, b, st, SpecialIdx(nd * Len(sts) * Len(cats))[k], v) :
            nd \in 1..MaxPanelDays, sts \in PanelStates, cats \in PanelCategories,
            b \in 0..MaxVal, st \in {0, 1}, k \in 1..3, v \in SpecialVals}
    \cup {TwoYear(p, c) : p \in {0, 1000}, c \in {0, 1200}}
    \cup {TwoCategoryYear(a, b, c, d) :
            a \in 0..MaxVal, b \in {0, 1}, c \in {1, 2}, d \in {0, 2}}
    \cup DuplicateTables

\* probe answers: success, a server error, no answer
Responses == {"200", "503", NoResponse}

\* the columns of a caller's raw table
CallerColumns == {"date", "state", "category", "registrations", "manufacturer"}

\* the table without column c
DropColumn(t, c) ==
    [i \in 1..Len(t) |-> [f \in DOMAIN t[i] \ {c} |-> t[i][f]]] \o <<>>

\* raw tables of a caller that lack a column, and the one without rows
DeficientTables ==
    {DropColumn(TwoYear(1000, 1200), c) : c \in ProcessReads} \cup {<<>>}

\* processed tables handed to calculate_growth_metrics that lack a column,
\* and the one without rows and columns
HandedTables ==
    {DropColumn(process_registration_data(TwoYear(p, 1200)), c) :
        p \in {0, 1000}, c \in MetricsReads \cup {"date", "manufacturer"}}
    \cup {<<>>}

---------------------------------------------------------------------------

\* a session in which nothing was stored yet
EmptySession ==
    [keys |-> {}, processed_data |-> None, growth_metrics |-> None,
     raw_data |-> None]

\* no press of the load button yet
NoAttempt == [stages |-> <<>>, outcome |-> "none", error |-> "none"]

\* the keys lines 117-119 write
LoadedKeys == {"processed_data", "growth_metrics", "raw_data"}

\* the date ranges of the sidebar: one of no day, one day, and two days
\* across the end of a year
AppRanges ==
    {[start_date |-> Date(2020, 3, 1), end_date |-> Date(2020, 2, 29)],
     [start_date |-> Date(2020, 2, 29), end_date |-> Date(2020, 2, 29)],
     [start_date |-> Date(2019, 12, 31), end_date |-> Date(2020, 1, 1)]}

\* the state selections of the sidebar; none selected is passed as None
AppStates == {<<>>, <<"Delhi">>, <<"Gujarat", "Karnataka">>}

\* the category selections of the sidebar
AppCategories == {<<>>, <<"4W">>, <<"2W", "3W", "4W">>}

\* noise draws of a load, in hundredths
AppNoise == {100, 115}

Init ==
    /\ raw = None
    /\ rawcols = {}
    /\ processed = None
    /\ proccols = {}
    /\ metrics = None
    /\ source = "none"
    /\ call = [fn |-> "none"]
    /\ error = "none"
    /\ pc = "idle"
    /\ session_state = EmptySession
    /\ attempt = NoAttempt

\* collect_vahan_data: one connectivity probe, then either the raise of
\* line 37 (re-raised by the handler of lines 49-51) or the generated table
Collect ==
    /\ pc = "idle"
    /\ \E response \in Responses, start \in GenStarts, span \in 0..MaxSpan,
          sts \in GenStates, cats \in GenCategories, a \in NoiseVals,
          sp \in 0..2, mp \in {0, 1} :
          \E b \in (IF sp = 0 THEN {a} ELSE NoiseVals),
             end \in {IF span = 0 THEN PrevDay(start)
                      ELSE DaysFrom(start, span)[span]} :
          \E draws \in {[nominal |-> a, special |-> b, at |-> sp, pick |-> mp]} :
          \E out \in {collect_vahan_data(response, start, end, sts, cats, draws)} :
             /\ call' = [fn |-> "collect_vahan_data", response |-> response,
                         start_date |-> start, end_date |-> end,
                         states |-> sts, vehicle_categories |-> cats,
                         draws |-> IF out.entered /\ out.data # <<>>
                                   THEN draws ELSE NoDraws,
                         probes |-> out.probes, entered |-> out.entered]
             /\ error' = out.error
             /\ raw' = IF out.error = "none" THEN out.data ELSE raw
             /\ rawcols' = IF out.error = "none"
                           THEN ColumnsOf(out.data, {}) ELSE rawcols
             /\ source' = IF out.error = "none" THEN "generated" ELSE source
             /\ pc' = IF out.error = "none" THEN "raw" ELSE "failed"
    /\ UNCHANGED <<processed, proccols, metrics>>
    /\ UNCHANGED <<session_state, attempt>>

\* a caller hands its own table to process_registration_data
Supply ==
    /\ pc = "idle"
    /\ \E t \in CallerTables \cup DeficientTables, rev \in BOOLEAN :
          /\ raw' = IF rev THEN Reverse(t) ELSE t
          /\ rawcols' = ColumnsOf(t, CallerColumns)
    /\ source' = "caller"
    /\ pc' = "raw"
    /\ UNCHANGED <<processed, proccols, metrics, call, error>>
    /\ UNCHANGED <<session_state, attempt>>

\* a caller hands calculate_growth_metrics a table of its own
SupplyProcessed ==
    /\ pc = "idle"
    /\ \E t \in HandedTables :
          /\ processed' = t
          /\ proccols' = ColumnsOf(t, {})
    /\ source' = "handed"
    /\ pc' = "handed"
    /\ UNCHANGED <<raw, rawcols, metrics, call, error>>
    /\ UNCHANGED <<session_state, attempt>>

\* process_registration_data(raw_data)
Process ==
    /\ pc = "raw"
    /\ \E out \in {ProcessOutcome(raw, rawcols)} :
          /\ error' = out.error
          /\ processed' = IF out.error = "none" THEN out.data ELSE processed
          /\ proccols' = IF out.error = "none"
                         THEN ColumnsOf(out.data, ProcessedColumns(rawcols))
                         ELSE proccols
          /\ pc' = IF out.error = "none" THEN "processed" ELSE "failed"
    /\ raw' = RawAfterProcess(raw)
    /\ UNCHANGED <<rawcols, metrics, source, call>>
    /\ UNCHANGED <<session_state, attempt>>

\* calculate_growth_metrics(processed_data)
Summarize ==
    /\ pc \in {"processed", "handed"}
    /\ \E out \in {MetricsOutcome(processed, proccols)} :
          /\ error' = out.error
          /\ metrics' = IF out.error = "none" THEN out.data ELSE metrics
          /\ pc' = IF out.error = "none" THEN "summarized" ELSE "failed"
    /\ processed' = ProcessedAfterSummarize(processed)
    /\ UNCHANGED <<raw, rawcols, proccols, source, call>>
    /\ UNCHANGED <<session_state, attempt>>

Next == Collect \/ Supply \/ SupplyProcessed \/ Process \/ Summarize

Spec == Init /\ [][Next]_vars

\* the load handler with raw_data stored as soon as it is collected
LoadStoreRawFirst ==
    /\ \E response \in Responses, range \in AppRanges, selected_states \in AppStates,
          vehicle_categories \in AppCategories, a \in AppNoise, mp \in {0, 1} :
          \E draws \in {[nominal |-> a, special |-> a, at |-> 0, pick |-> mp]} :
          \E raw_data \in {collect_vahan_data(response, range.start_date,
                                               range.end_date, selected_states,
                                               vehicle_categories, draws)} :
             IF raw_data.error # "none"
             THEN /\ attempt' = [stages |-> <<"collect">>, outcome |-> "error",
                                 error |-> raw_data.error]
                  /\ session_state' = session_state
             ELSE IF raw_data.data = <<>>
             THEN /\ attempt' = [stages |-> <<"collect">>, outcome |-> "warning",
                                 error |-> "none"]
                  /\ session_state' =
                        [session_state EXCEPT
                            !.keys = @ \cup {"raw_data"},
                            !.raw_data = raw_data.data]
             ELSE \E processed_data \in
                        {ProcessOutcome(raw_data.data, ColumnsOf(raw_data.data, {}))} :
                  \E growth_metrics \in
                        {MetricsOutcome(processed_data.data,
                                        ColumnsOf(processed_data.data, {}))} :
                     /\ attempt' = [stages |-> <<"collect", "process", "summarize">>,
                                    outcome |-> "success", error |-> "none"]
                     /\ session_state' =
                           [keys |-> LoadedKeys,
                            processed_data |-> processed_data.data,
                            growth_metrics |-> growth_metrics.data,
                            raw_data |-> raw_data.data]
    /\ UNCHANGED <<raw, rawcols, processed, proccols, metrics, source, call,
                   error, pc>>

\* app.py lines 95-126: one press of the load button.  The stages run one
\* after the other inside the try; a raise of any of them is caught at line
\* 123 and an empty table returns at line 107, both before the three writes
\* of lines 117-119.
Load ==
    /\ \E response \in Responses, range \in AppRanges, selected_states \in AppStates,
          vehicle_categories \in AppCategories, a \in AppNoise, mp \in {0, 1} :
          \E draws \in {[nominal |-> a, special |-> a, at |-> 0, pick |-> mp]} :
          \E raw_data \in {collect_vahan_data(response, range.start_date,
                                               range.end_date, selected_states,
                                               vehicle_categories, draws)} :
             IF raw_data.error # "none"
             THEN /\ attempt' = [stages |-> <<"collect">>, outcome |-> "error",
                                 error |-> raw_data.error]
                  /\ session_state' = session_state
             ELSE IF raw_data.data = <<>>
             THEN /\ attempt' = [stages |-> <<"collect">>, outcome |-> "warning",
                                 error |-> "none"]
                  /\ session_state' = session_state
             ELSE \E processed_data \in
                        {ProcessOutcome(raw_data.data, ColumnsOf(raw_data.data, {}))} :
                  IF processed_data.error # "none"
                  THEN /\ attempt' = [stages |-> <<"collect", "process">>,
                                      outcome |-> "error",
                                      error |-> processed_data.error]
                       /\ session_state' = session_state
                  ELSE \E growth_metrics \in
                             {MetricsOutcome(processed_data.data,
                                             ColumnsOf(processed_data.data, {}))} :
                       IF growth_metrics.error # "none"
                       THEN /\ attempt' =
                                  [stages |-> <<"collect", "process", "summarize">>,
                                   outcome |-> "error",
                                   error |-> growth_metrics.error]
                            /\ session_state' = session_state
                       ELSE /\ attempt' =
                                  [stages |-> <<"collect", "process", "summarize">>,
                                   outcome |-> "success", error |-> "none"]
                            /\ session_state' =
                                  [keys |-> LoadedKeys,
                                   processed_data |->
                                       ProcessedAfterSummarize(processed_data.data),
                                   growth_metrics |-> growth_metrics.data,
                                   raw_data |-> RawAfterProcess(raw_data.data)]
    /\ UNCHANGED <<raw, rawcols, processed, proccols, metrics, source, call,
                   error, pc>>

\* the dashboard: presses of the load button, one after the other
AppNext == Load

AppSpec == Init /\ [][AppNext]_vars

---------------------------------------------------------------------------
(* Properties.                                                             *)

\* process_registration_data has returned its table
Processed ==
    source \in {"generated", "caller"} /\ pc \in {"processed", "summarized"}

\* calculate_growth_metrics has returned the summary of that table
Summarized == source \in {"generated", "caller"} /\ pc = "summarized"

Dates(data) == {data[i].date : i \in 1..Len(data)}

RowsOn(data, d) == Rows(data, LAMBDA r : r.date = d)

\* Series.sum(): missing entries are skipped
FSumSkipNa(s) == FSumSeq(DropNa(s))

\* the sum of the values of f over the set S
RECURSIVE FSumFn(_, _)
FSumFn(f, S) ==
    IF S = {} THEN I(0)
    ELSE LET x == CHOOSE y \in S : TRUE
         IN FAdd(f[x], FSumFn(f, S \ {x}))

FSumOver(S, f(_)) == FSumFn([x \in S |-> f(x)], S)

\* C1: every row of a generated table has registrations >= 0, whatever the
\* date range, the state and category lists and the noise draws (noise <= 0
\* included).
C1_GeneratedNonNegative ==
    (source = "generated" /\ pc # "idle") =>
        \A i \in 1..Len(raw) : raw[i].registrations >= 0

\* C1 witness: a generated table in which a non-positive noise draw was
\* clamped to 0 next to a row with a positive count.
C1_Witness ==
    /\ source = "generated" /\ pc = "raw"
    /\ \E i, j \in 1..Len(raw) :
          raw[i].registrations = 0 /\ raw[j].registrations > 0

\* C2 as stated: for every date of the processed table, category_market_share
\* summed over all rows sharing that date equals 100, a date whose total
\* registrations is 0 included.
C2_Original ==
    Processed =>
        \A d \in Dates(processed) :
            FSumSkipNa(Column(RowsOn(processed, d),
                              LAMBDA r : r.category_market_share)) = I(100)

\* C2 amended: for every date whose total registrations is positive,
\* category_market_share summed over the rows sharing that date equals 100;
\* on a date whose total is 0 every category_market_share is missing.
C2_CategorySharesSum ==
    Processed =>
        \A d \in Dates(processed) :
            LET rows == RowsOn(processed, d)
            IN IF RegSum(rows) > 0
               THEN FSumSkipNa(Column(rows, LAMBDA r : r.category_market_share))
                       = I(100)
               ELSE \A i \in 1..Len(rows) : IsMissing(rows[i].category_market_share)

\* C2 witness: a processed date shared by several states and categories with
\* a positive total, on which two rows hold different positive shares.
C2_Witness ==
    /\ Processed
    /\ \E i, j \in 1..Len(processed) :
          /\ processed[i].date = processed[j].date
          /\ processed[i].state # processed[j].state
          /\ FGt(processed[i].category_market_share,
                 processed[j].category_market_share)
          /\ FGt(processed[j].category_market_share, I(0))

StatesOn(data, d) == {data[i].state : i \in {k \in 1..Len(data) : data[k].date = d}}

\* the state_market_share carried by the rows of state s on date d
StateShareOf(data, d, s) ==
    LET i == CHOOSE k \in 1..Len(data) : data[k].date = d /\ data[k].state = s
    IN data[i].state_market_share

StateSharesUniform(data) ==
    \A i, j \in 1..Len(data) :
        (data[i].date = data[j].date /\ data[i].state = data[j].state)
            => data[i].state_market_share = data[j].state_market_share

\* C3 as stated: every row's state_market_share is its state's daily total
\* over the daily total x 100, equal on all rows sharing (date, state), so
\* that on every date the values taken once per state sum to 100.
C3_Original ==
    Processed =>
        /\ StateSharesUniform(processed)
        /\ \A d \in Dates(processed) :
              FSumOver(StatesOn(processed, d),
                       LAMBDA s : StateShareOf(processed, d, s)) = I(100)

\* C3 amended: every row's state_market_share is its state's daily total over
\* the daily total x 100 and is equal on all rows sharing (date, state); on
\* every date whose total registrations is positive the values taken once
\* per state sum to 100, and on a date whose total is 0 they are missing.
C3_StateShares ==
    Processed =>
        /\ StateSharesUniform(processed)
        /\ \A d \in Dates(processed) :
              LET rows == RowsOn(processed, d)
                  total == RegSum(rows)
              IN /\ \A i \in 1..Len(rows) :
                       rows[i].state_market_share =
                           IF total > 0
                           THEN Num(100 * RegSum(Rows(rows,
                                        LAMBDA r : r.state = rows[i].state)), total)
                           ELSE NaN
                 /\ total > 0 =>
                       FSumOver(StatesOn(processed, d),
                                LAMBDA s : StateShareOf(processed, d, s)) = I(100)

\* C3 witness: a date with two states of two categories each and a positive
\* total, where a state's share differs from its rows' category shares.
C3_Witness ==
    /\ Processed
    /\ \E i, j \in 1..Len(processed) :
          /\ processed[i].date = processed[j].date
          /\ processed[i].state = processed[j].state
          /\ processed[i].category # processed[j].category
          /\ processed[i].registrations > 0
          /\ processed[j].registrations > 0
          /\ \E k \in 1..Len(processed) :
                /\ processed[k].date = processed[i].date
                /\ processed[k].state # processed[i].state
                /\ processed[k].registrations > 0

\* the distinct months of row's (state, category) group, ascending
GroupMonths(data, row) ==
    SortedSeq({data[i].month : i \in {k \in 1..Len(data) : SameGroup(data[k], row)}})

\* registrations of row's group summed over month m
MonthSum(data, row, m) ==
    SumWhere(data, LAMBDA r : SameGroup(r, row) /\ r.month = m)

\* position of row's month in its group's month-ordered aggregate
MonthRank(data, row) ==
    Cardinality({j \in 1..Len(GroupMonths(data, row)) :
                    GroupMonths(data, row)[j] <= row.month})

\* float value of (curr - prev) / prev x 100 on integer sums
Growth(curr, prev) ==
    IF prev > 0 THEN Num(100 * (curr - prev), prev)
    ELSE IF curr > 0 THEN Inf(1) ELSE NaN

GrowthColumnsFinite(row) ==
    /\ ~IsInf(row.yoy_growth)
    /\ ~IsInf(row.qoq_growth)
    /\ ~IsInf(row.mom_growth)

\* the growth value at the given lag is missing when the prior-period sum is
\* zero or absent
MissingOnZeroPrior(data, row, lag, value) ==
    LET months == GroupMonths(data, row)
        k == MonthRank(data, row)
    IN (k <= lag \/ MonthSum(data, row, months[Max(1, k - lag)]) = 0)
          => IsMissing(value)

\* C5: whenever the prior-period monthly sum used for yoy_growth, qoq_growth
\* or mom_growth is zero or missing the growth value is missing; no row of
\* the processed table carries an infinite growth value and none reaches the
\* means of calculate_growth_metrics.
C5_NoInfiniteGrowth ==
    /\ Processed =>
          \A p \in 1..Len(processed) :
              LET row == processed[p]
              IN /\ GrowthColumnsFinite(row)
                 /\ MissingOnZeroPrior(processed, row, 12, row.yoy_growth)
                 /\ MissingOnZeroPrior(processed, row, 3, row.qoq_growth)
                 /\ MissingOnZeroPrior(processed, row, 1, row.mom_growth)
    /\ Summarized =>
          /\ \A c \in DOMAIN metrics.category_yoy_growth :
                ~IsInf(metrics.category_yoy_growth[c])
          /\ \A st \in DOMAIN metrics.state_yoy_growth :
                ~IsInf(metrics.state_yoy_growth[st])

\* registrations of the rows of p's group at positions up to p, in row order
GroupRegsUpTo(data, p) ==
    Column(Rows(SubSeq(data, 1, p), LAMBDA r : SameGroup(r, data[p])),
           LAMBDA r : r.registrations)

\* mean of the last min(Len(g), w) entries of g
TrailingMean(g, w) ==
    LET k == Len(g)
        m == Min(k, w)
    IN Num(SumSeq(SubSeq(g, k - m + 1, k)), m)

\* C6: within each (state, category) group the processed rows are in date
\* order, the k-th row carries the mean of the group's last min(k,7) resp.
\* min(k,30) registrations, and the first row carries its own registrations.
C6_RollingAverages ==
    Processed =>
        \A p \in 1..Len(processed) :
            LET row == processed[p]
                g == GroupRegsUpTo(processed, p)
            IN /\ \A q \in 1..p :
                     SameGroup(processed[q], row)
                        => DateOrd(processed[q].date) <= DateOrd(row.date)
               /\ row.registrations_7d_avg = TrailingMean(g, 7)
               /\ row.registrations_30d_avg = TrailingMean(g, 30)
               /\ Len(g) = 1 =>
                     /\ row.registrations_7d_avg = I(row.registrations)
                     /\ row.registrations_30d_avg = I(row.registrations)

\* C6 witness: a group handed over in descending date order, whose 31st row
\* carries a 30-row mean different from its 7-row mean and from the mean of
\* all 31 rows.
C6_Witness ==
    /\ Processed
    /\ Len(raw) > 30
    /\ DateOrd(raw[1].date) > DateOrd(raw[2].date)
    /\ \E p \in 1..Len(processed) :
          LET g == GroupRegsUpTo(processed, p)
          IN /\ Len(g) = 31
             /\ processed[p].registrations_30d_avg # Num(SumSeq(g), 31)
             /\ processed[p].registrations_30d_avg # processed[p].registrations_7d_avg

\* C7: total_yoy_growth = (C - P)/P x 100 with C the registrations of the
\* latest calendar year present and P those of the year before it, 0 when the
\* table has no row of the previous year; the result is a finite number for
\* every processed table, also when the previous-year rows all have
\* registrations 0.
C7_TotalYoYFinite ==
    Summarized =>
        LET y == CHOOSE yy \in {processed[i].year : i \in 1..Len(processed)} :
                    \A i \in 1..Len(processed) : processed[i].year <= yy
            cur == RegSum(Rows(processed, LAMBDA r : r.year = y))
            prevRows == Rows(processed, LAMBDA r : r.year = y - 1)
            prev == RegSum(prevRows)
        IN /\ IsFinite(metrics.total_yoy_growth)
           /\ prevRows = <<>> => metrics.total_yoy_growth = I(0)
           /\ (prevRows # <<>> /\ prev # 0)
                 => metrics.total_yoy_growth = Num(100 * (cur - prev), prev)

\* C8 as stated: market_concentration has one entry per category present,
\* each that category's registrations / grand total x 100, and the entries
\* sum to 100.
C8_Original ==
    Summarized =>
        /\ DOMAIN metrics.market_concentration = Categories(processed)
        /\ FSumFn(metrics.market_concentration,
                  DOMAIN metrics.market_concentration) = I(100)

\* C8 amended: market_concentration has one entry per category present; when
\* the grand total of registrations is positive each entry is that
\* category's registrations / grand total x 100 and the entries sum to 100;
\* when the grand total is 0 every entry is missing.
C8_MarketConcentration ==
    Summarized =>
        LET mc == metrics.market_concentration
            total == RegSum(processed)
        IN /\ DOMAIN mc = Categories(processed)
           /\ IF total > 0
              THEN /\ \A c \in DOMAIN mc :
                         mc[c] = Num(100 * RegSum(Rows(processed,
                                         LAMBDA r : r.category = c)), total)
                   /\ FSumFn(mc, DOMAIN mc) = I(100)
              ELSE \A c \in DOMAIN mc : IsMissing(mc[c])

\* C8 witness: a summary over two categories with different positive shares.
C8_Witness ==
    /\ Summarized
    /\ \E c1, c2 \in DOMAIN metrics.market_concentration :
          /\ FGt(metrics.market_concentration[c1], metrics.market_concentration[c2])
          /\ FGt(metrics.market_concentration[c2], I(0))

\* the last min(Len(g), 30) entries of g
Trailing30(g) == SubSeq(g, Len(g) - Min(Len(g), 30) + 1, Len(g))

IsConst(xs) == \A i, j \in 1..Len(xs) : xs[i] = xs[j]

\* row's whole group is a positive constant over at least 30 rows
ConstantGroup(data, row) ==
    LET g == Column(Rows(data, LAMBDA r : SameGroup(r, row)),
                    LAMBDA r : r.registrations)
    IN Len(g) >= 30 /\ IsConst(g) /\ g[1] > 0

\* C9 as stated: volatility_30d is missing on the first 9 rows of each
\* (state, category) group and defined from the 10th row on; for a group that
\* is a positive constant for at least 30 days it is 0 wherever defined.
C9_Original ==
    Processed =>
        \A p \in 1..Len(processed) :
            LET row == processed[p]
                k == Len(GroupRegsUpTo(processed, p))
            IN /\ k < 10 => IsMissing(row.volatility_30d)
               /\ k >= 10 => ~IsMissing(row.volatility_30d)
               /\ (ConstantGroup(processed, row) /\ ~IsMissing(row.volatility_30d))
                     => row.volatility_30d = I(0)

\* C9 amended: volatility_30d is missing on the first 9 rows of each group;
\* from the 10th row on it is defined exactly when the trailing 30-row window
\* holds a non-zero registration (missing when the window is all 0), and then
\* it is 0 exactly when the window is constant; for a group that is a
\* positive constant for at least 30 days it is 0 on every row from the 10th.
C9_Volatility ==
    Processed =>
        \A p \in 1..Len(processed) :
            LET row == processed[p]
                g == GroupRegsUpTo(processed, p)
                k == Len(g)
                w == Trailing30(g)
            IN /\ k < 10 => IsMissing(row.volatility_30d)
               /\ k >= 10 =>
                     /\ IsMissing(row.volatility_30d) <=> SumSeq(w) = 0
                     /\ ~IsMissing(row.volatility_30d) =>
                           (row.volatility_30d = I(0) <=> IsConst(w))
               /\ (ConstantGroup(processed, row) /\ k >= 10)
                     => row.volatility_30d = I(0)

\* C9 witness: a group that is a positive constant over 31 days, with
\* volatility 0 on its 10th and its 31st row.
C9_Witness ==
    /\ Processed
    /\ \E p, q \in 1..Len(processed) :
          /\ ConstantGroup(processed, processed[p])
          /\ SameGroup(processed[p], processed[q])
          /\ Len(GroupRegsUpTo(processed, p)) = 10
          /\ Len(GroupRegsUpTo(processed, q)) = 31
          /\ processed[p].volatility_30d = I(0)
          /\ processed[q].volatility_30d = I(0)

Generated == source = "generated" /\ call.fn = "collect_vahan_data"

\* the date range of the call holds at least one day
RangeNonEmpty == DateOrd(call.start_date) <= DateOrd(call.end_date)

SeqRange(s) == {s[i] : i \in 1..Len(s)}

\* C12: a generated table (over a date range that holds a day) has rows for
\* exactly the five default states when the state list was omitted, None or
\* empty, and for exactly the three default categories when the category
\* list was; a non-empty list is used as given.
C12_DefaultLists ==
    (Generated /\ RangeNonEmpty) =>
        /\ States(raw) =
              IF call.states = <<>>
              THEN {"Maharashtra", "Karnataka", "Tamil Nadu", "Gujarat",
                    "Uttar Pradesh"}
              ELSE SeqRange(call.states)
        /\ Categories(raw) =
              IF call.vehicle_categories = <<>> THEN {"2W", "3W", "4W"}
              ELSE SeqRange(call.vehicle_categories)

\* C12 witness: a table generated with the state list left out and a
\* category list given: five states, the two given categories.
C12_Witness ==
    /\ Generated /\ RangeNonEmpty
    /\ call.states = <<>> /\ call.vehicle_categories = <<"Others", "EV">>
    /\ Cardinality(States(raw)) = 5
    /\ Categories(raw) = {"Others", "EV"}

\* the calendar days from a to b, both included
DaysBetween(a, b) ==
    {dt \in {Date(y, m, d) : y \in a.y..b.y, m \in 1..12, d \in 1..31} :
        /\ dt.d <= DaysInMonth(dt.y, dt.m)
        /\ DateOrd(a) <= DateOrd(dt) /\ DateOrd(dt) <= DateOrd(b)}

\* the list the generator iterates for a given argument
ListUsed(given, default) == IF given = <<>> THEN default ELSE given

\* C13: for a date range with start <= end the generated table has exactly
\* one row for every (date, state, category) of the product of the days from
\* start to end (both included), the state list and the category list, and
\* no other row; its row count is |dates| x |states| x |categories|.
C13_CartesianProduct ==
    (Generated /\ RangeNonEmpty) =>
        LET dates == DaysBetween(call.start_date, call.end_date)
            sts == ListUsed(call.states,
                            <<"Maharashtra", "Karnataka", "Tamil Nadu",
                              "Gujarat", "Uttar Pradesh">>)
            cats == ListUsed(call.vehicle_categories, <<"2W", "3W", "4W">>)
        IN /\ call.start_date \in dates /\ call.end_date \in dates
           /\ Len(raw) = Cardinality(dates) * Len(sts) * Len(cats)
           /\ \A d \in dates, s \in SeqRange(sts), c \in SeqRange(cats) :
                 Cardinality({i \in 1..Len(raw) :
                                 /\ raw[i].date = d
                                 /\ raw[i].state = s
                                 /\ raw[i].category = c}) = 1
           /\ \A i \in 1..Len(raw) :
                 /\ raw[i].date \in dates
                 /\ raw[i].state \in SeqRange(sts)
                 /\ raw[i].category \in SeqRange(cats)

\* C13 witness: a range of two days across a year end, two states and two
\* categories: eight rows, the first on the start date, the last on the end
\* date.
C13_Witness ==
    /\ Generated /\ RangeNonEmpty
    /\ call.start_date = Date(2019, 12, 31) /\ call.end_date = Date(2020, 1, 1)
    /\ Len(call.states) = 2 /\ Len(call.vehicle_categories) = 2
    /\ Len(raw) = 8
    /\ raw[1].date = call.start_date /\ raw[8].date = call.end_date

\* base x seasonal x growth x state_factor x noise of row i of the generated
\* table, as an exact rational
RowProduct(i) ==
    LET row == raw[i]
    IN FMul(FMul(FMul(FMul(I(_get_base_registrations(row.category)),
                           _get_seasonal_factor(row.date)),
                      _get_growth_factor(row.date, row.category)),
                 _get_state_factor(row.state)),
            Num(NoiseDraw(call.draws, i), 100))

\* k is an integer nearest to the rational x
IsNearest(k, x) == 2 * Abs(k * x.d - x.n) <= x.d

\* C14 as stated: registrations of every generated row is the product of
\* base, seasonal, growth, state factor and noise rounded to the nearest
\* integer, then clamped to be >= 0.
C14_Original ==
    Generated =>
        \A i \in 1..Len(raw) :
            LET x == RowProduct(i)
                reg == raw[i].registrations
            IN IF x.n < 0 THEN reg = 0 ELSE IsNearest(reg, x)

\* C14 (amended): registrations of every generated row is the product with
\* its fractional part dropped (int(), towards zero), then clamped to be
\* >= 0: the largest integer not above a non-negative product, 0 for a
\* negative one.
C14_Truncated ==
    Generated =>
        \A i \in 1..Len(raw) :
            LET x == RowProduct(i)
                reg == raw[i].registrations
            IN IF x.n < 0 THEN reg = 0
               ELSE reg * x.d <= x.n /\ x.n < (reg + 1) * x.d

\* C14 witness: a generated row whose product lies more than a half above
\* its registrations.
C14_Witness ==
    /\ Generated
    /\ \E i \in 1..Len(raw) :
          LET x == RowProduct(i)
              reg == raw[i].registrations
          IN x.n > 0 /\ 2 * (x.n - reg * x.d) > x.d /\ x.n < (reg + 1) * x.d

\* C15: when the connectivity probe does not answer with status 200 (another
\* status, or no answer), collect_vahan_data raises a connectivity error to
\* its caller: no table is returned, the generator is never entered, and the
\* probe was made once (no retry).
C15_OfflineRaises ==
    (call.fn = "collect_vahan_data" /\ call.response # "200") =>
        /\ error = "ConnectionError" /\ pc = "failed"
        /\ raw = None /\ rawcols = {} /\ source = "none"
        /\ ~call.entered
        /\ call.probes = 1

\* C15 witness: a call whose probe got no answer has raised.
C15_Witness ==
    /\ call.fn = "collect_vahan_data" /\ call.response = NoResponse
    /\ error = "ConnectionError" /\ pc = "failed" /\ raw = None

\* process_registration_data has been called on raw
ProcessCalled == source \in {"generated", "caller"} /\ pc \notin {"idle", "raw"}

\* calculate_growth_metrics has been called on a handed table
SummarizeCalledOnHanded == source = "handed" /\ pc \notin {"idle", "handed"}

\* the call on raw raised the schema error and returned nothing
ProcessFailed ==
    error = "KeyError" /\ pc = "failed" /\ processed = None /\ metrics = None

\* the call on the handed table raised the schema error and returned nothing
SummarizeFailed == error = "KeyError" /\ pc = "failed" /\ metrics = None

\* C16 as stated: a table lacking one of date, state, category, registrations
\* makes process_registration_data fail, and a table lacking one of those or
\* of year, month, yoy_growth, volatility_30d makes calculate_growth_metrics
\* fail, with the error raised to the caller and no table or summary
\* returned.
C16_Original ==
    /\ (ProcessCalled /\ \E c \in {"date", "state", "category", "registrations"} :
                            c \notin rawcols) => ProcessFailed
    /\ (SummarizeCalledOnHanded
          /\ \E c \in {"date", "state", "category", "registrations", "year",
                       "month", "yoy_growth", "volatility_30d"} :
                c \notin proccols) => SummarizeFailed

\* C16 (amended): as stated, except that calculate_growth_metrics does not
\* read date: it fails on a table lacking one of state, category,
\* registrations, year, month, yoy_growth, volatility_30d.
C16_MissingColumnRaises ==
    /\ (ProcessCalled /\ \E c \in {"date", "state", "category", "registrations"} :
                            c \notin rawcols) => ProcessFailed
    /\ (SummarizeCalledOnHanded
          /\ \E c \in {"state", "category", "registrations", "year",
                       "month", "yoy_growth", "volatility_30d"} :
                c \notin proccols) => SummarizeFailed

\* C16 witness: process_registration_data was called on a two-row table
\* without the registrations column and raised.
C16_Witness ==
    /\ ProcessCalled /\ ProcessFailed
    /\ Len(raw) = 2 /\ "registrations" \notin rawcols /\ "date" \in rawcols

\* calculate_growth_metrics was called on a table without yoy_growth and
\* raised
C16_SummarizeRaised ==
    /\ SummarizeCalledOnHanded /\ SummarizeFailed
    /\ Len(processed) = 2 /\ "yoy_growth" \notin proccols

\* C17: a table without rows is a result, not an error.  The generator on a
\* date range that holds no day returns a table without rows and raises
\* nothing; process_registration_data on a table without rows that has the
\* documented columns returns a processed table without rows; and
\* calculate_growth_metrics on a processed table without rows returns
\* total_yoy_growth 0, monthly_growth 0, growth_consistency 0,
\* top_growing_category "N/A" with top_growth_rate 0, average_volatility 0 and
\* empty category, state and concentration mappings.
C17_ZeroRows ==
    /\ (call.fn = "collect_vahan_data" /\ call.response = "200"
          /\ ~RangeNonEmpty) =>
            source = "generated" /\ call.entered /\ raw = <<>>
    /\ (ProcessCalled /\ raw = <<>>
          /\ {"date", "state", "category", "registrations"} \subseteq rawcols) =>
            Processed /\ processed = <<>>
    /\ (Summarized /\ processed = <<>>) =>
            /\ error = "none"
            /\ metrics.total_yoy_growth = I(0)
            /\ metrics.monthly_growth = I(0)
            /\ metrics.growth_consistency = I(0)
            /\ metrics.top_growing_category = "N/A"
            /\ metrics.top_growth_rate = I(0)
            /\ metrics.average_volatility = I(0)
            /\ DOMAIN metrics.category_yoy_growth = {}
            /\ DOMAIN metrics.state_yoy_growth = {}
            /\ DOMAIN metrics.market_concentration = {}

\* C17 witness: a caller's table without rows went through both calls.
C17_Witness ==
    /\ Summarized /\ source = "caller"
    /\ raw = <<>> /\ processed = <<>>
    /\ metrics.top_growing_category = "N/A"

\* the generator has returned a table without rows for a range without days
C17_EmptyRangeGenerated ==
    Generated /\ ~RangeNonEmpty /\ pc = "raw" /\ raw = <<>> /\ error = "none"

\* the month-over-month growth rates of the monthly totals of the processed
\* table, the undefined first entry left out
MonthlyRates == DropNa(SeriesPctChange(MonthlyTotals(processed)))

\* C18: growth_consistency is the standard deviation of the month-over-month
\* growth rates of the monthly totals divided by the absolute value of their
\* mean, 0 when the mean is 0 or there is no rate; for every processed table,
\* one of exactly two months (a single rate) included, it is a defined
\* number.
C18_GrowthConsistencyDefined ==
    Summarized =>
        /\ IsFinite(metrics.growth_consistency)
        /\ metrics.growth_consistency =
              IF MonthlyRates = <<>> \/ FMean(MonthlyRates) = I(0) THEN I(0)
              ELSE FDiv(FStd(MonthlyRates), FAbs(FMean(MonthlyRates)))

\* a table of exactly two months whose growth_consistency is not a number
C18_TwoMonthsUndefined ==
    /\ Summarized
    /\ Len(MonthlyTotals(processed)) = 2
    /\ IsNaN(metrics.growth_consistency)
    /\ Len(raw) = 4

\* C19: top_growing_category is a category of the processed table whose
\* mean yoy_growth, as reported in category_yoy_growth, no other category's
\* exceeds, and top_growth_rate is exactly that category's entry; without any
\* category they are "N/A" and 0.
C19_TopCategory ==
    Summarized =>
        LET cats == Categories(processed)
            avg == metrics.category_yoy_growth
            top == metrics.top_growing_category
        IN IF cats = {}
           THEN top = "N/A" /\ metrics.top_growth_rate = I(0)
           ELSE /\ top \in cats
                /\ \A c \in cats : ~FGt(avg[c], avg[top])
                /\ metrics.top_growth_rate = avg[top]

\* C19 witness: two categories with different finite means, the greater one
\* belonging to the category that is second in index order.
C19_Witness ==
    /\ Summarized
    /\ Categories(processed) = {"2W", "4W"}
    /\ IsFinite(metrics.category_yoy_growth["2W"])
    /\ IsFinite(metrics.category_yoy_growth["4W"])
    /\ FGt(metrics.category_yoy_growth["4W"], metrics.category_yoy_growth["2W"])
    /\ metrics.top_growing_category = "4W"
    /\ metrics.top_growth_rate = I(100)

\* the rows of the processed table in the group S with a yoy_growth
DefinedIn(S) == {i \in S : ~IsNaN(processed[i].yoy_growth)}

\* the mean of yoy_growth over the rows of S that have one; 0 without any
MeanDefined(S) ==
    LET idx == DefinedIn(S)
    IN IF idx = {} THEN I(0)
       ELSE FDiv(FSumFn([i \in idx |-> processed[i].yoy_growth], idx),
                 I(Cardinality(idx)))

CategoryRows(c) == {i \in 1..Len(processed) : processed[i].category = c}

StateRows(st) == {i \in 1..Len(processed) : processed[i].state = st}

\* C20: category_yoy_growth has an entry for every category of the processed
\* table, equal to the mean of yoy_growth over the rows of that category
\* whose yoy_growth is not missing (missing values are skipped, not counted
\* as 0), and 0 exactly when every such yoy_growth is missing or the defined
\* ones average 0; state_yoy_growth likewise for every state.
C20_GroupMeans ==
    Summarized =>
        /\ DOMAIN metrics.category_yoy_growth = Categories(processed)
        /\ DOMAIN metrics.state_yoy_growth = States(processed)
        /\ \A c \in Categories(processed) :
              /\ metrics.category_yoy_growth[c] = MeanDefined(CategoryRows(c))
              /\ metrics.category_yoy_growth[c] = I(0) <=>
                    \/ DefinedIn(CategoryRows(c)) = {}
                    \/ FSumFn([i \in DefinedIn(CategoryRows(c)) |->
                                  processed[i].yoy_growth],
                              DefinedIn(CategoryRows(c))) = I(0)
        /\ \A st \in States(processed) :
              /\ metrics.state_yoy_growth[st] = MeanDefined(StateRows(st))
              /\ metrics.state_yoy_growth[st] = I(0) <=>
                    \/ DefinedIn(StateRows(st)) = {}
                    \/ FSumFn([i \in DefinedIn(StateRows(st)) |->
                                  processed[i].yoy_growth],
                              DefinedIn(StateRows(st))) = I(0)

\* C20 witness: a category with rows without and rows with a yoy_growth,
\* whose entry is the non-zero finite mean of the latter; and a category all
\* of whose rows lack it, with entry 0.
C20_Witness ==
    /\ Summarized
    /\ \E c \in Categories(processed) :
          /\ DefinedIn(CategoryRows(c)) # {}
          /\ DefinedIn(CategoryRows(c)) # CategoryRows(c)
          /\ IsFinite(metrics.category_yoy_growth[c])
          /\ metrics.category_yoy_growth[c] # I(0)
    /\ \E c \in Categories(processed) :
          /\ DefinedIn(CategoryRows(c)) = {}
          /\ metrics.category_yoy_growth[c] = I(0)

\* the months of the processed table
MonthsPresent == {processed[i].month : i \in 1..Len(processed)}

\* the registrations of month m, all states and categories together
TotalOfMonth(m) ==
    SumSeq([i \in 1..Len(processed) |->
              IF processed[i].month = m THEN processed[i].registrations
              ELSE 0] \o <<>>)

\* the month before m among the months present
MonthBefore(m) ==
    CHOOSE q \in MonthsPresent :
        q < m /\ \A q2 \in MonthsPresent : q2 < m => q2 <= q

\* the months with a predecessor
LaterMonths == {m \in MonthsPresent : \E q \in MonthsPresent : q < m}

\* the change of month m against the month before it, in percent, for a
\* positive earlier total
PercentChange(m) ==
    Num(100 * (TotalOfMonth(m) - TotalOfMonth(MonthBefore(m))),
        TotalOfMonth(MonthBefore(m)))

C21_ZeroToZeroSkipped ==
    /\ Summarized
    /\ \E m \in LaterMonths :
          TotalOfMonth(m) = 0 /\ TotalOfMonth(MonthBefore(m)) = 0
    /\ IsFinite(metrics.monthly_growth)

\* the growth of row's monthly sum against the entry lag periods earlier in
\* months, its group's month-ordered aggregate, where it stands at position
\* k; missing without such an entry
LaggedGrowth(row, months, k, lag) ==
    IF k <= lag THEN NaN
    ELSE Growth(MonthSum(processed, row, months[k]),
                MonthSum(processed, row, months[k - lag]))

\* C22: in every processed row yoy_growth, qoq_growth and mom_growth are the
\* percent change of the monthly sum of the row's (state, category, month)
\* against the entry 12, 3 and 1 periods earlier in the (state, category)'s
\* month-ordered aggregate (a plain lag, not aligned to quarters); rows
\* sharing (state, category, month) carry identical values, and a row without
\* such an earlier entry carries a missing value, never 0.
C22_BroadcastGrowth ==
    Processed =>
        /\ \A p \in 1..Len(processed) :
              LET row == processed[p]
                  months == GroupMonths(processed, row)
                  k == Cardinality({j \in 1..Len(months) : months[j] <= row.month})
              IN /\ row.yoy_growth = LaggedGrowth(row, months, k, 12)
                 /\ row.qoq_growth = LaggedGrowth(row, months, k, 3)
                 /\ row.mom_growth = LaggedGrowth(row, months, k, 1)
                 /\ k <= 1 => IsNaN(row.mom_growth) /\ row.mom_growth # I(0)
        /\ \A p, q \in 1..Len(processed) :
              (SameGroup(processed[p], processed[q])
                 /\ processed[p].month = processed[q].month) =>
                    /\ processed[p].yoy_growth = processed[q].yoy_growth
                    /\ processed[p].qoq_growth = processed[q].qoq_growth
                    /\ processed[p].mom_growth = processed[q].mom_growth

\* C22 witness: two rows of the fifth month of a series, a month that opens
\* no quarter: both carry the same finite non-zero qoq_growth against the
\* second month and a different mom_growth, and no yoy_growth.
C22_Witness ==
    /\ Processed
    /\ \E p, q \in 1..Len(processed) :
          /\ p # q
          /\ SameGroup(processed[p], processed[q])
          /\ processed[p].month = processed[q].month
          /\ processed[p].date.m \notin {1, 4, 7, 10}
          /\ MonthRank(processed, processed[p]) = 5
          /\ IsFinite(processed[p].qoq_growth)
          /\ processed[p].qoq_growth # I(0)
          /\ processed[p].qoq_growth # processed[p].mom_growth
          /\ processed[q].qoq_growth = processed[p].qoq_growth
          /\ IsNaN(processed[p].yoy_growth)

\* no two rows of the table share (date, state, category)
UniqueKeys(data) ==
    \A i, j \in 1..Len(data) :
        (data[i].date = data[j].date /\ SameGroup(data[i], data[j])) => i = j

\* the rows at the odd positions, then those at the even positions
OddsFirst(s) ==
    LET n == Len(s)
        h == (n + 1) \div 2
    IN [i \in 1..n |-> IF i <= h THEN s[2 * i - 1] ELSE s[2 * (i - h)]] \o <<>>

\* every observation of a processed table with its rolling statistics
RollingStats(data) ==
    {<<data[p].date, data[p].state, data[p].category,
       data[p].registrations_7d_avg, data[p].registrations_30d_avg,
       data[p].volatility_30d>> : p \in 1..Len(data)}

\* C23: for a raw table with unique (date, state, category) keys the rolling
\* statistics attached to each observation (registrations_7d_avg,
\* registrations_30d_avg and volatility_30d, the last computed after the two
\* joins) do not depend on the row order of the input: whenever the
\* processing of a table succeeds, in whatever order its rows were handed
\* over, processing the table with its odd rows first gives the same values.
C23_OrderIndependent ==
    [][(pc = "raw" /\ pc' = "processed" /\ UniqueKeys(raw)) =>
          RollingStats(process_registration_data(OddsFirst(raw)))
              = RollingStats(processed')]_vars

\* C23 witness: a table handed over latest row first whose processed rows
\* carry a defined volatility and rolling means that differ from each other
\* and from the row's own registrations.
C23_Witness ==
    /\ pc = "processed" /\ source = "caller" /\ UniqueKeys(raw)
    /\ Len(raw) >= 10
    /\ DateOrd(raw[1].date) > DateOrd(raw[2].date)
    /\ \E p \in 1..Len(processed) :
          /\ IsFinite(processed[p].volatility_30d)
          /\ processed[p].volatility_30d # I(0)
          /\ processed[p].registrations_7d_avg # processed[p].registrations_30d_avg
          /\ processed[p].registrations_7d_avg # I(processed[p].registrations)

\* the observation a row carries
Observation(row) ==
    <<row.date, row.state, row.category, row.registrations, row.manufacturer>>

\* how many rows of the table carry observation o
Occurrences(data, o) ==
    Cardinality({i \in 1..Len(data) : Observation(data[i]) = o})

\* C24: process_registration_data neither drops nor duplicates observations:
\* whenever it succeeds, the processed table has as many rows as the raw
\* table, and every (date, state, category, registrations, manufacturer) of
\* the raw table occurs in it exactly as often as in the raw table, also when
\* several rows share the same (date, state, category).
C24_RowsPreserved ==
    [][(pc = "raw" /\ pc' = "processed") =>
          /\ Len(processed') = Len(raw)
          /\ \A i \in 1..Len(raw) :
                Occurrences(processed', Observation(raw[i]))
                    = Occurrences(raw, Observation(raw[i]))]_vars

\* C24 witness: a processed table in which one (date, state, category) is
\* carried by two rows that are equal in every column, and another table in
\* which it is carried by two rows of different manufacturers and counts.
C24_Witness ==
    /\ Processed /\ ~UniqueKeys(raw)
    /\ Len(processed) >= 4
    /\ \E p, q \in 1..Len(processed) :
          /\ p # q
          /\ processed[p].date = processed[q].date
          /\ SameGroup(processed[p], processed[q])
          /\ processed[p].manufacturer # processed[q].manufacturer
          /\ processed[p].registrations # processed[q].registrations

\* C24: two rows of the raw table equal in every column are both kept
C24_WitnessIdentical ==
    /\ Processed
    /\ \E i \in 1..Len(raw) : Occurrences(processed, Observation(raw[i])) = 2

\* row p opens its (state, category) group in the processed table
FirstOfGroup(data, p) ==
    \A q \in 1..(p - 1) : ~SameGroup(data[q], data[p])

\* registrations exceeds registrations_30d_avg and that average is not zero
ExceedsNonZeroAverage(row) ==
    /\ IsFinite(row.registrations_30d_avg)
    /\ row.registrations_30d_avg.n # 0
    /\ row.registrations * row.registrations_30d_avg.d
           > row.registrations_30d_avg.n

\* the parts of the claim that do not speak of performance_vs_30d
FlagsConsistent(row) ==
    /\ ~(row.is_high_growth /\ row.is_declining)
    /\ IsNaN(row.yoy_growth) => (~row.is_high_growth /\ ~row.is_declining)
    /\ row.is_above_average = ExceedsNonZeroAverage(row)

\* C25 as stated: the flags are consistent, and on the first row of every
\* (state, category) group is_above_average is false and performance_vs_30d
\* is 0.
C25_Original ==
    Processed =>
        \A p \in 1..Len(processed) :
            /\ FlagsConsistent(processed[p])
            /\ FirstOfGroup(processed, p) =>
                  /\ ~processed[p].is_above_average
                  /\ processed[p].performance_vs_30d = I(0)

\* C25: is_high_growth and is_declining are never both true and both false
\* when yoy_growth is missing; is_above_average is true exactly when
\* registrations exceeds a non-zero registrations_30d_avg; on the first row
\* of every (state, category) group is_above_average is false and
\* performance_vs_30d is 0 when the row's registrations are positive and
\* missing (0/0) when they are 0.
C25_FlagsConsistent ==
    Processed =>
        \A p \in 1..Len(processed) :
            /\ FlagsConsistent(processed[p])
            /\ FirstOfGroup(processed, p) =>
                  /\ ~processed[p].is_above_average
                  /\ processed[p].performance_vs_30d
                        = IF processed[p].registrations > 0 THEN I(0) ELSE NaN

\* C25 witness: a processed table whose first row of a group has no
\* registrations, with a row above a non-zero average, a row of finite high
\* growth and a row without a year-over-year rate.
C25_Witness ==
    /\ Processed
    /\ \E p \in 1..Len(processed) :
          /\ FirstOfGroup(processed, p)
          /\ processed[p].registrations = 0
          /\ IsNaN(processed[p].performance_vs_30d)
    /\ \E q \in 1..Len(processed) : processed[q].is_above_average
    /\ \E r \in 1..Len(processed) :
          processed[r].is_high_growth /\ IsFinite(processed[r].yoy_growth)
    /\ \E u \in 1..Len(processed) : IsNaN(processed[u].yoy_growth)

\* C25: a declining row next to a row that is neither declining nor of high
\* growth although its rate is defined, and a first row with registrations
\* whose performance_vs_30d is 0
C25_WitnessDeclining ==
    /\ Processed
    /\ \E p \in 1..Len(processed) : processed[p].is_declining
    /\ \E q \in 1..Len(processed) :
          /\ IsFinite(processed[q].yoy_growth)
          /\ ~processed[q].is_declining /\ ~processed[q].is_high_growth
    /\ \E r \in 1..Len(processed) :
          /\ FirstOfGroup(processed, r)
          /\ processed[r].registrations > 0
          /\ processed[r].performance_vs_30d = I(0)

\* the stored summary is that of the stored processed table, which is the
\* processing of the stored raw table
SessionConsistent ==
    \/ session_state.keys = {}
    \/ /\ session_state.keys = LoadedKeys
       /\ session_state.processed_data
             = process_registration_data(session_state.raw_data)
       /\ session_state.growth_metrics
             = calculate_growth_metrics(session_state.processed_data)

\* two session states hold the same keys with the same values
SameSession(a, b) ==
    /\ a.keys = b.keys
    /\ a.keys = LoadedKeys =>
          /\ a.raw_data = b.raw_data
          /\ a.processed_data = b.processed_data
          /\ a.growth_metrics = b.growth_metrics

\* the stages of an attempt are an initial part of collect, process,
\* summarize
StagesInOrder(stages) ==
    /\ Len(stages) <= 3
    /\ stages = SubSeq(<<"collect", "process", "summarize">>, 1, Len(stages))

\* C26: the load action runs collect, process, summarize in this order and
\* writes the session state only after all three succeeded: an attempt in
\* which a stage raised or the collected table was empty leaves the stored
\* processed_data, growth_metrics and raw_data as they were, and at all times
\* the stored growth_metrics is the summary of the stored processed_data,
\* which is the processing of the stored raw_data.
C26_LoadAllOrNothing ==
    /\ []SessionConsistent
    /\ [][/\ StagesInOrder(attempt'.stages)
          /\ attempt'.outcome # "success" =>
                SameSession(session_state', session_state)
          /\ ~SameSession(session_state', session_state) =>
                /\ attempt'.outcome = "success"
                /\ Len(attempt'.stages) = 3]_vars

\* C26 witness: the collector raised in an attempt after a successful load,
\* the session still holding the three values of that load
C26_Witness ==
    /\ session_state.keys = LoadedKeys
    /\ Len(session_state.raw_data) >= 2
    /\ attempt.outcome = "error"
    /\ attempt.error = "ConnectionError"
    /\ attempt.stages = <<"collect">>

\* C26: an attempt that collected a table without rows after a successful
\* load
C26_WitnessEmpty ==
    /\ session_state.keys = LoadedKeys
    /\ attempt.outcome = "warning"

===========================================================================
